---- MODULE Spec2Model ----
(***************************************************************************)
(* Model of scripts/fetch_data.py: the batch run of main (roster load,     *)
(* batched download, per-symbol resolution, rendering, file write) and of  *)
(* the script embedded in the generated page (getColor, getTextColor,      *)
(* makeTile, sortBy).                                                      *)
(*                                                                         *)
(* Numbers: a Python float / JS number is kept as an exact fraction n/d in *)
(* lowest terms (d > 0), so float64 rounding is not modelled; Python None  *)
(* and JS null are separate values.  Closing prices are positive, security *)
(* codes are distinct and start with a digit.  Strings the code compares   *)
(* (codes) are sequences of one-character strings; sector names are only   *)
(* tested for equality and are plain strings.  A tile keeps the fields the *)
(* code derives from the data: code, background and text colour.           *)
(***************************************************************************)
EXTENDS Integers, Sequences, FiniteSets, TLC

VARIABLES
    pc,           \* position of main: start, loaded, downloaded, fetched, rendered, opened, done, failed
    stocks,       \* load_stock_list(): the roster
    results,      \* fetch_price_data: the observations appended so far
    ticker_data,  \* fetch_price_data: what the lookup of the current symbol gave
    idx,          \* fetch_price_data: number of roster entries the loop has handled
    failed,       \* indices of the roster whose per-symbol lookup failed
    html,         \* generate_html(): the document (sector_blocks, json_data)
    output_file,  \* the file at OUTPUT_PATH
    page,         \* browser: closed / loaded
    stockData,    \* browser: const stockData
    content,      \* browser: innerHTML of #content
    active,       \* browser: the control buttons carrying class "active"
    clicked       \* browser: the button clicked last ("none" on a fresh load)

vars == <<pc, stocks, results, ticker_data, idx, failed, html, output_file,
          page, stockData, content, active, clicked>>

-----------------------------------------------------------------------------
\* Bounds of the model

\* rows of the roster
MaxStocks == 3
\* rows of a ticker's frame in the download
MaxCloses == 3
\* change percentages of the tile specification reach +-MaxPctHalves / 2
MaxPctHalves == 8

\* the values the inputs are drawn from

CloseVals == {100, 105}
Sectors == {"A", "B"}
CodePool == { <<"9", ".", "T">>, <<"1", "0", ".", "T">>, <<"1", "A", ".", "T">> }

-----------------------------------------------------------------------------
\* Numbers

RECURSIVE GCD(_, _)
GCD(a, b) == IF b = 0 THEN a ELSE GCD(b, a % b)

Abs(x) == IF x < 0 THEN -x ELSE x

None == [kind |-> "None", n |-> 0, d |-> 1]

Float(n, d) ==
    LET g == GCD(Abs(n), d)
    IN  [kind |-> "float", n |-> n \div g, d |-> d \div g]

\* x >= k for a float x and an integer literal k
Ge(x, k) == x.n >= k * x.d

\* x <= k for a float x and an integer literal k
Le(x, k) == x.n <= k * x.d

-----------------------------------------------------------------------------
\* load_stock_list

Rosters ==
    UNION { { [i \in 1..n |-> [code |-> cs[i], sector |-> ss[i]]] :
                cs \in {s \in [1..n -> CodePool] : \A i, j \in 1..n : i # j => s[i] # s[j]},
                ss \in [1..n -> Sectors] } : n \in 0..MaxStocks }

\* the i-th code of a roster file of distinct codes: "1.T", "11.T", "111.T", ...
FileCode(i) == [k \in 1..i |-> "1"] \o <<".", "T">>

\* roster files of 0..MaxStocks rows
RosterFiles ==
    { [i \in 1..n |-> [code |-> FileCode(i), sector |-> IF i % 2 = 1 THEN "A" ELSE "B"]] :
        n \in 0..MaxStocks }


-----------------------------------------------------------------------------
\* fetch_price_data

NaN == [nan |-> TRUE, v |-> 0]

Close(v) == [nan |-> FALSE, v |-> v]

CloseEntries == {NaN} \cup {Close(v) : v \in CloseVals}

CloseSeries == UNION { [1..k -> CloseEntries] : k \in 0..MaxCloses }

NoLookup == [kind |-> "none", has_close |-> FALSE, Close |-> <<>>]

\* data[code] raised: the symbol is not in the batch result
KeyErrorLookup == [kind |-> "KeyError", has_close |-> FALSE, Close |-> <<>>]

\* a frame without a "Close" column
MalformedFrame == [kind |-> "frame", has_close |-> FALSE, Close |-> <<>>]

Frames == {MalformedFrame} \cup
          { [kind |-> "frame", has_close |-> TRUE, Close |-> s] : s \in CloseSeries }

\* with one ticker the whole frame is used, otherwise data[code]
Lookups(ntickers) == IF ntickers = 1 THEN Frames ELSE Frames \cup {KeyErrorLookup}

IsValid(e) == ~e.nan

dropna(series) == SelectSeq(series, IsValid)

prev_close_first(closes) == closes[1].v

prev_close(closes) == closes[Len(closes) - 1].v

last_close(closes) == closes[Len(closes)].v

Absent(stock) ==
    [code |-> stock.code, sector |-> stock.sector, price |-> None, change_pct |-> None]

\* the body of the try block for one symbol: the observation it appends
try_body(stock, td) ==
    LET closes == dropna(td.Close)
    IN  IF Len(closes) >= 2
        THEN [code |-> stock.code, sector |-> stock.sector,
              price |-> Float(last_close(closes), 1),
              change_pct |-> Float((last_close(closes) - prev_close(closes)) * 100,
                                   prev_close(closes))]
        ELSE Absent(stock)

raises(td) == td.kind = "KeyError" \/ ~td.has_close

fetch_one_swallow(stock, td) == IF raises(td) THEN <<>> ELSE <<try_body(stock, td)>>

\* one iteration of the loop: what it appends to results
fetch_one(stock, td) == IF raises(td) THEN <<Absent(stock)>> ELSE <<try_body(stock, td)>>

\* the claim's notion of a failing per-symbol lookup
LookupFails(td) ==
    \/ td.kind = "KeyError"
    \/ ~td.has_close
    \/ Cardinality({i \in 1..Len(td.Close) : ~td.Close[i].nan}) < 2

-----------------------------------------------------------------------------
\* Python strings

Digits == <<"0", "1", "2", "3", "4", "5", "6", "7", "8", "9">>

IsDigit(c) == \E i \in 1..Len(Digits) : Digits[i] = c

DigitVal(c) == (CHOOSE i \in 1..Len(Digits) : Digits[i] = c) - 1

\* the code point of a character
Ord(c) ==
    IF IsDigit(c) THEN 48 + DigitVal(c)
    ELSE CASE c = "." -> 46 [] c = "A" -> 65 [] c = "T" -> 84

RECURSIVE str_lt(_, _)
str_lt(a, b) ==
    IF b = <<>> THEN FALSE
    ELSE IF a = <<>> THEN TRUE
    ELSE IF Head(a) = Head(b) THEN str_lt(Tail(a), Tail(b))
    ELSE Ord(Head(a)) < Ord(Head(b))

\* s.replace(".T", "")
RECURSIVE str_replace(_)
str_replace(s) ==
    IF Len(s) < 2 THEN s
    ELSE IF s[1] = "." /\ s[2] = "T" THEN str_replace(SubSeq(s, 3, Len(s)))
    ELSE <<s[1]>> \o str_replace(Tail(s))

\* a stable sort of s, lt[j, k] telling whether s[j] orders before s[k]
StableSort(s, lt) ==
    LET n == Len(s)
        pos(k) == 1 + Cardinality({ j \in 1..n :
                          lt[j, k] \/ (~lt[k, j] /\ j < k) })
    IN  [i \in 1..n |-> s[CHOOSE k \in 1..n : pos(k) = i]]

\* sorted(..., key=...): the order of the string keys
str_order(keys) ==
    [j \in 1..Len(keys), k \in 1..Len(keys) |-> str_lt(keys[j], keys[k])]

-----------------------------------------------------------------------------
\* get_color / get_text_color

get_color_gt(change_pct) ==
    IF change_pct.kind = "None" THEN "#9E9E9E"
    ELSE IF Ge(change_pct, 3) THEN "#00873E"
    ELSE IF Ge(change_pct, 1) /\ ~(change_pct.n = change_pct.d) THEN "#4CAF50"
    ELSE IF Ge(change_pct, 0) THEN "#C8E6C9"
    ELSE IF Ge(change_pct, -1) THEN "#FFCDD2"
    ELSE IF Ge(change_pct, -3) THEN "#F44336"
    ELSE "#B71C1C"

get_color(change_pct) ==
    IF change_pct.kind = "None" THEN "#9E9E9E"
    ELSE IF Ge(change_pct, 3) THEN "#00873E"
    ELSE IF Ge(change_pct, 1) THEN "#4CAF50"
    ELSE IF Ge(change_pct, 0) THEN "#C8E6C9"
    ELSE IF Ge(change_pct, -1) THEN "#FFCDD2"
    ELSE IF Ge(change_pct, -3) THEN "#F44336"
    ELSE "#B71C1C"

get_text_color(change_pct) ==
    IF change_pct.kind = "None" THEN "#FFFFFF"
    ELSE IF Ge(change_pct, 3) \/ Le(change_pct, -3) THEN "#FFFFFF"
    ELSE IF Ge(change_pct, 1) \/ Le(change_pct, -1) THEN "#FFFFFF"
    ELSE "#333333"

-----------------------------------------------------------------------------
\* generate_html

\* the keys of the sectors dict, in insertion order
RECURSIVE sector_keys(_, _)
sector_keys(rs, seen) ==
    IF rs = <<>> THEN <<>>
    ELSE IF Head(rs).sector \in seen THEN sector_keys(Tail(rs), seen)
    ELSE <<Head(rs).sector>> \o sector_keys(Tail(rs), seen \cup {Head(rs).sector})

\* sectors[s]
sector_members(rs, s) ==
    LET InSector(r) == r.sector = s
    IN  SelectSeq(rs, InSector)

\* min(r["code"] for r in sectors[s])
min_code(rs, s) ==
    LET codes == { rs[i].code : i \in {j \in 1..Len(rs) : rs[j].sector = s} }
    IN  CHOOSE m \in codes : \A c \in codes : ~str_lt(c, m)

sector_order(rs) ==
    LET keys == sector_keys(rs, {})
    IN  StableSort(keys, str_order([k \in 1..Len(keys) |-> min_code(rs, keys[k])]))

server_tile(r) ==
    [code |-> str_replace(r.code),
     bg |-> get_color(r.change_pct),
     fg |-> get_text_color(r.change_pct)]

tiles_by_sector(rs, s) ==
    LET members == sector_members(rs, s)
        ordered == StableSort(members, str_order([k \in 1..Len(members) |-> members[k].code]))
    IN  [k \in 1..Len(ordered) |-> server_tile(ordered[k])]

\* json.dumps of a float or None
json_dumps(x) ==
    IF x.kind = "None" THEN [lit |-> "null", n |-> 0, d |-> 1]
    ELSE [lit |-> "number", n |-> x.n, d |-> x.d]

json_data(rs) ==
    [k \in 1..Len(rs) |->
        [code |-> str_replace(rs[k].code), sector |-> rs[k].sector,
         change_pct |-> json_dumps(rs[k].change_pct),
         price |-> json_dumps(rs[k].price)]]

generate_html(rs) ==
    LET order == sector_order(rs)
    IN  [sector_blocks |->
            [k \in 1..Len(order) |->
                [cls |-> "sector-group", title |-> order[k],
                 tiles |-> tiles_by_sector(rs, order[k])]],
         json_data |-> json_data(rs)]

NoHtml == [sector_blocks |-> <<>>, json_data |-> <<>>]

-----------------------------------------------------------------------------
\* The embedded script: values

\* the literal json.dumps wrote, as the script reads it
js_value(j) ==
    IF j.lit = "null" THEN [kind |-> "null", n |-> 0, d |-> 1]
    ELSE [kind |-> "number", n |-> j.n, d |-> j.d]

\* const stockData = {json_data};
js_stockData(jd) ==
    [k \in 1..Len(jd) |->
        [code |-> jd[k].code, sector |-> jd[k].sector,
         change_pct |-> js_value(jd[k].change_pct),
         price |-> js_value(jd[k].price)]]

getColor_gt(pct) ==
    IF pct.kind = "null" THEN "#9E9E9E"
    ELSE IF pct.n > 3 * pct.d THEN "#00873E"
    ELSE IF Ge(pct, 1) THEN "#4CAF50"
    ELSE IF Ge(pct, 0) THEN "#C8E6C9"
    ELSE IF Ge(pct, -1) THEN "#FFCDD2"
    ELSE IF Ge(pct, -3) THEN "#F44336"
    ELSE "#B71C1C"

getColor(pct) ==
    IF pct.kind = "null" THEN "#9E9E9E"
    ELSE IF Ge(pct, 3) THEN "#00873E"
    ELSE IF Ge(pct, 1) THEN "#4CAF50"
    ELSE IF Ge(pct, 0) THEN "#C8E6C9"
    ELSE IF Ge(pct, -1) THEN "#FFCDD2"
    ELSE IF Ge(pct, -3) THEN "#F44336"
    ELSE "#B71C1C"

getTextColor(pct) ==
    IF pct.kind = "null" THEN "#FFFFFF"
    ELSE IF Ge(pct, 3) \/ Le(pct, -3) THEN "#FFFFFF"
    ELSE IF Ge(pct, 1) \/ Le(pct, -1) THEN "#FFFFFF"
    ELSE "#333333"

makeTile(s) ==
    [code |-> s.code, bg |-> getColor(s.change_pct), fg |-> getTextColor(s.change_pct)]

JsNaN == [nan |-> TRUE, v |-> 0]

JsNum(v) == [nan |-> FALSE, v |-> v]

RECURSIVE parseDigits(_, _)
parseDigits(s, acc) ==
    IF s = <<>> \/ ~IsDigit(Head(s)) THEN acc
    ELSE parseDigits(Tail(s), acc * 10 + DigitVal(Head(s)))

\* parseInt(s): the leading digits, NaN when there are none
parseInt(s) ==
    IF s = <<>> \/ ~IsDigit(Head(s)) THEN JsNaN ELSE JsNum(parseDigits(s, 0))

\* Math.min(...xs) of a non-empty set of numbers
MathMin(xs) ==
    IF \E x \in xs : x.nan THEN JsNaN
    ELSE CHOOSE m \in xs : \A x \in xs : m.v <= x.v

\* the collation weight of a character (punctuation, digits, letters)
CollWeight(c) ==
    IF IsDigit(c) THEN 10 + DigitVal(c)
    ELSE CASE c = "." -> 1 [] c = "A" -> 30 [] c = "T" -> 49

\* a.localeCompare(b)
RECURSIVE localeCompare(_, _)
localeCompare(a, b) ==
    IF a = <<>> /\ b = <<>> THEN 0
    ELSE IF a = <<>> THEN -1
    ELSE IF b = <<>> THEN 1
    ELSE IF Head(a) = Head(b) THEN localeCompare(Tail(a), Tail(b))
    ELSE IF CollWeight(Head(a)) < CollWeight(Head(b)) THEN -1 ELSE 1

change_key_last(pct) == IF pct.kind = "null" THEN [kind |-> "number", n |-> -1000, d |-> 1] ELSE pct

\* (x.change_pct || 0)
change_key(pct) == IF pct.kind = "null" \/ pct.n = 0 THEN [kind |-> "number", n |-> 0, d |-> 1] ELSE pct

\* x - y < 0 for two numbers
SubNegative(x, y) == x.n * y.d < y.n * x.d

-----------------------------------------------------------------------------
\* sortBy

Buttons == {"sector", "change_desc", "change_asc", "code"}

\* Object.keys(groups): the sectors in insertion order
RECURSIVE group_keys(_, _)
group_keys(data, seen) ==
    IF data = <<>> THEN <<>>
    ELSE IF Head(data).sector \in seen THEN group_keys(Tail(data), seen)
    ELSE <<Head(data).sector>> \o group_keys(Tail(data), seen \cup {Head(data).sector})

\* groups[sector]
group_items(data, sector) ==
    LET InGroup(x) == x.sector = sector
    IN  SelectSeq(data, InGroup)

\* Math.min(...groups[a].map(s => parseInt(s.code)))
group_min(data, sector) ==
    MathMin({ parseInt(data[i].code) : i \in {j \in 1..Len(data) : data[j].sector = sector} })

\* (a, b) => minA - minB, as the sort reads it
sectorOrder(data) ==
    LET keys == group_keys(data, {})
        mins == [k \in 1..Len(keys) |-> group_min(data, keys[k])]
    IN  StableSort(keys, [j \in 1..Len(keys), k \in 1..Len(keys) |->
                            ~mins[j].nan /\ ~mins[k].nan /\ mins[j].v - mins[k].v < 0])

code_order(xs) ==
    [j \in 1..Len(xs), k \in 1..Len(xs) |-> localeCompare(xs[j].code, xs[k].code) < 0]

sorted_flat(mode, data) ==
    IF mode = "change_desc"
    THEN StableSort(data, [j \in 1..Len(data), k \in 1..Len(data) |->
            SubNegative(change_key(data[k].change_pct), change_key(data[j].change_pct))])
    ELSE IF mode = "change_asc"
    THEN StableSort(data, [j \in 1..Len(data), k \in 1..Len(data) |->
            SubNegative(change_key(data[j].change_pct), change_key(data[k].change_pct))])
    ELSE StableSort(data, code_order(data))

tiles_of(xs) == [k \in 1..Len(xs) |-> makeTile(xs[k])]

\* content.innerHTML after sortBy(mode)
sortBy_content(mode, data) ==
    IF mode = "sector"
    THEN LET order == sectorOrder(data)
         IN  [k \in 1..Len(order) |->
                [cls |-> "sector-group", title |-> order[k],
                 tiles |-> tiles_of(StableSort(group_items(data, order[k]),
                                               code_order(group_items(data, order[k]))))]]
    ELSE << [cls |-> "flat-grid", title |-> "", tiles |-> tiles_of(sorted_flat(mode, data))] >>

sortBy_stockData_inplace(mode, data) == IF mode = "sector" THEN data ELSE sorted_flat(mode, data)

\* stockData after sortBy(mode): the sorts work on copies ([...stockData], groups)
sortBy_stockData(mode, data) == data

\* the buttons carrying "active" after a click on target
sortBy_active(act, target) == (act \ Buttons) \cup {target}

-----------------------------------------------------------------------------
\* main

AbsentFile == [kind |-> "absent", doc |-> NoHtml]
PriorFile == [kind |-> "prior", doc |-> NoHtml]
EmptyFile == [kind |-> "empty", doc |-> NoHtml]
PartialFile == [kind |-> "partial", doc |-> NoHtml]

browser_vars == <<page, stockData, content, active, clicked>>

LoadStockList ==
    /\ pc = "start"
    /\ \/ \E roster \in RosterFiles : stocks' = roster /\ pc' = "loaded"
       \/ stocks' = stocks /\ pc' = "failed"
    /\ UNCHANGED <<results, ticker_data, idx, failed, html, output_file, browser_vars>>

Download ==
    /\ pc = "loaded"
    /\ \/ pc' = "downloaded"
       \/ pc' = "failed"
    /\ UNCHANGED <<stocks, results, ticker_data, idx, failed, html, output_file, browser_vars>>

ResolveSymbol ==
    /\ pc = "downloaded"
    /\ idx < Len(stocks)
    /\ \E td \in Lookups(Len(stocks)) :
          /\ ticker_data' = td
          /\ results' = results \o fetch_one(stocks[idx + 1], td)
          /\ failed' = IF LookupFails(td) THEN failed \cup {idx + 1} ELSE failed
    /\ idx' = idx + 1
    /\ UNCHANGED <<pc, stocks, html, output_file, browser_vars>>

FetchReturn ==
    /\ pc = "downloaded"
    /\ idx = Len(stocks)
    /\ pc' = "fetched"
    /\ UNCHANGED <<stocks, results, ticker_data, idx, failed, html, output_file, browser_vars>>

GenerateHtml ==
    /\ pc = "fetched"
    /\ html' = generate_html(results)
    /\ pc' = "rendered"
    /\ UNCHANGED <<stocks, results, ticker_data, idx, failed, output_file, browser_vars>>

\* open(OUTPUT_PATH, "w"): truncates the file, or raises and leaves it
OpenOutput ==
    /\ pc = "rendered"
    /\ \/ output_file' = EmptyFile /\ pc' = "opened"
       \/ output_file' = output_file /\ pc' = "failed"
    /\ UNCHANGED <<stocks, results, ticker_data, idx, failed, html, browser_vars>>

\* f.write(html) and the close at the end of the with block
WriteOutput ==
    /\ pc = "opened"
    /\ \/ output_file' = [kind |-> "document", doc |-> html] /\ pc' = "done"
       \/ output_file' \in {EmptyFile, PartialFile} /\ pc' = "failed"
    /\ UNCHANGED <<stocks, results, ticker_data, idx, failed, html, browser_vars>>

BrowserClosed ==
    /\ page = "closed"
    /\ stockData = <<>>
    /\ content = <<>>
    /\ active = {}
    /\ clicked = "none"

\* the page is opened in a browser
PageLoad ==
    /\ output_file.kind = "document"
    /\ page' = "loaded"
    /\ stockData' = js_stockData(output_file.doc.json_data)
    /\ content' = output_file.doc.sector_blocks
    /\ active' = {"sector"}
    /\ clicked' = "none"
    /\ UNCHANGED <<pc, stocks, results, ticker_data, idx, failed, html, output_file>>

\* a click on one of the four control buttons: onclick="sortBy(mode)"
Click ==
    /\ page = "loaded"
    /\ \E target \in Buttons :
          /\ active' = sortBy_active(active, target)
          /\ content' = sortBy_content(target, stockData)
          /\ stockData' = sortBy_stockData(target, stockData)
          /\ clicked' = target
    /\ UNCHANGED <<pc, stocks, results, ticker_data, idx, failed, html, output_file, page>>

Init ==
    /\ pc = "start"
    /\ stocks = <<>>
    /\ results = <<>>
    /\ ticker_data = NoLookup
    /\ idx = 0
    /\ failed = {}
    /\ html = NoHtml
    /\ output_file \in {AbsentFile, PriorFile}
    /\ BrowserClosed

Next ==
    \/ LoadStockList
    \/ Download
    \/ ResolveSymbol
    \/ FetchReturn
    \/ GenerateHtml
    \/ OpenOutput
    \/ WriteOutput

\* the batch run of main
Spec == Init /\ [][Next]_vars

\* the change percentages of the view specification's datasets
PctSamples == {None, Float(-1, 1), Float(0, 1), Float(3, 1)}

\* the change percentages of the tile specification: -MaxPctHalves/2 .. MaxPctHalves/2
PctDomain == {None} \cup { Float(n, 2) : n \in -MaxPctHalves..MaxPctHalves }

\* the observations fetch_price_data returns for a roster and its change percentages
Observations(roster, pcts) ==
    [i \in 1..Len(roster) |->
        [code |-> roster[i].code, sector |-> roster[i].sector,
         price |-> IF pcts[i].kind = "None" THEN None ELSE Float(100, 1),
         change_pct |-> pcts[i]]]

Fetched(rosters, pctset) ==
    /\ pc = "fetched"
    /\ stocks \in rosters
    /\ \E pcts \in [1..Len(stocks) -> pctset] : results = Observations(stocks, pcts)
    /\ ticker_data = NoLookup
    /\ idx = Len(stocks)
    /\ failed = { i \in 1..Len(stocks) : results[i].change_pct.kind = "None" }
    /\ html = NoHtml
    /\ output_file = PriorFile
    /\ BrowserClosed

NextView ==
    \/ GenerateHtml
    \/ OpenOutput
    \/ WriteOutput
    \/ PageLoad
    \/ Click

InitView == Fetched(Rosters, PctSamples)

\* rendering and the page's views, from every dataset of up to MaxStocks records
SpecView == InitView /\ [][NextView]_vars

InitTiles == Fetched({ r \in Rosters : Len(r) = 1 }, PctDomain)

\* rendering and the page's views of one record, over the change percentages
SpecTiles == InitTiles /\ [][NextView]_vars

-----------------------------------------------------------------------------
\* Properties

Rendered == html # NoHtml \/ pc \in {"rendered", "opened", "done"}

\* the tiles of a view (the server-rendered blocks or the displayed content)
AllTiles(blocks) ==
    UNION { { blocks[b].tiles[k] : k \in 1..Len(blocks[b].tiles) } : b \in 1..Len(blocks) }

TilesFor(blocks, code) == { t \in AllTiles(blocks) : t.code = code }

\* C1: for every record of the embedded dataset and in every view mode a
\* click selects, the colour pair makeTile computes on the client is the pair
\* the server-side initial render computed for the same record.
C1_ClientColoursMatchServer ==
    (page = "loaded" /\ clicked # "none") =>
        \A i \in 1..Len(html.json_data) :
            LET code == html.json_data[i].code
            IN  /\ TilesFor(content, code) # {}
                /\ TilesFor(html.sector_blocks, code) # {}
                /\ \A ct \in TilesFor(content, code) :
                   \A st \in TilesFor(html.sector_blocks, code) :
                       ct.bg = st.bg /\ ct.fg = st.fg

C1_Witness ==
    /\ page = "loaded"
    /\ clicked = "change_desc"
    /\ Len(results) = 1
    /\ results[1].change_pct = Float(-1, 1)
    /\ \E t \in AllTiles(content) : t.bg = "#FFCDD2" /\ t.fg = "#FFFFFF"

\* the threshold table: the colours whose range holds x
TableColours(x) ==
    LET num == x.kind # "None"
        atLeast(k) == x.n >= k * x.d
        below(k) == x.n < k * x.d
    IN  { c \in {"#9E9E9E", "#00873E", "#4CAF50", "#C8E6C9", "#FFCDD2", "#F44336", "#B71C1C"} :
            \/ c = "#9E9E9E" /\ ~num
            \/ c = "#00873E" /\ num /\ atLeast(3)
            \/ c = "#4CAF50" /\ num /\ atLeast(1) /\ below(3)
            \/ c = "#C8E6C9" /\ num /\ atLeast(0) /\ below(1)
            \/ c = "#FFCDD2" /\ num /\ atLeast(-1) /\ below(0)
            \/ c = "#F44336" /\ num /\ atLeast(-3) /\ below(-1)
            \/ c = "#B71C1C" /\ num /\ below(-3) }

\* C2: get_color follows the six-bucket threshold table, ties going to the
\* higher bucket: every change percentage (or absent) lies in exactly one
\* range of the table and the rendered tile has that range's colour.
C2_BackgroundFollowsTable ==
    Rendered =>
        \A i \in 1..Len(results) :
            /\ TilesFor(html.sector_blocks, str_replace(results[i].code)) # {}
            /\ \A t \in TilesFor(html.sector_blocks, str_replace(results[i].code)) :
                   TableColours(results[i].change_pct) = {t.bg}

C2_Witness ==
    /\ Rendered
    /\ Len(results) = 1
    /\ results[1].change_pct = Float(3, 1)
    /\ \E t \in AllTiles(html.sector_blocks) : t.bg = "#00873E"

\* the text colour the table pairs with a background colour
PairedText(bg) == IF bg \in {"#C8E6C9", "#FFCDD2"} THEN "#333333" ELSE "#FFFFFF"

\* C3: the text colour of a tile is the one the threshold table pairs with
\* its background colour (dark gray on pale green and pale red, white on
\* every other background), the boundary values included.
C3_TextPairedWithBackground ==
    \A t \in AllTiles(html.sector_blocks) : t.fg = PairedText(t.bg)

\* the valid closes of a looked-up frame, in order
ValidIdx(td) == { i \in 1..Len(td.Close) : ~td.Close[i].nan }

MaxOf(S) == CHOOSE m \in S : \A x \in S : x <= m

\* what the resolver is to yield for a lookup: the last valid close and the
\* change from the valid close before it, or absent
Expected(td) ==
    IF td.kind = "frame" /\ td.has_close /\ Cardinality(ValidIdx(td)) >= 2
    THEN LET l == MaxOf(ValidIdx(td))
             q == MaxOf(ValidIdx(td) \ {l})
         IN  [present |-> TRUE, last |-> td.Close[l].v, previous |-> td.Close[q].v]
    ELSE [present |-> FALSE, last |-> 0, previous |-> 1]

Matches(obs, e) ==
    IF e.present
    THEN /\ obs.price.kind = "float"
         /\ obs.price.n = e.last * obs.price.d
         /\ obs.change_pct.kind = "float"
         /\ obs.change_pct.n * e.previous = (e.last - e.previous) * 100 * obs.change_pct.d
    ELSE obs.price = None /\ obs.change_pct = None

\* C4: failure isolation: whichever lookups fail, the loop appends exactly
\* one observation per roster entry in roster order; a failing symbol is
\* absent, and a symbol whose lookup succeeds gets the values of its own
\* series whether or not other symbols failed.
C4_FailureIsolation ==
    /\ pc = "downloaded" => Len(results) = idx
    /\ pc \in {"fetched", "rendered", "opened", "done"} => Len(results) = Len(stocks)
    /\ \A i \in 1..Len(results) :
          /\ i <= Len(stocks)
          /\ results[i].code = stocks[i].code
          /\ results[i].sector = stocks[i].sector
          /\ i \in failed => results[i].price = None /\ results[i].change_pct = None
          /\ i \notin failed =>
                results[i].price.kind = "float" /\ results[i].change_pct.kind = "float"
    /\ (pc = "downloaded" /\ idx >= 1 /\ Len(results) >= idx /\ idx \notin failed) =>
          Matches(results[idx], Expected(ticker_data))

C4_Witness ==
    /\ pc = "fetched"
    /\ Len(stocks) = 3
    /\ Len(results) = 3
    /\ failed = {2}
    /\ ticker_data.kind = "frame"
    /\ results[1].price.kind = "float"
    /\ results[2].price = None
    /\ results[3].change_pct.kind = "float"

\* C5: the resolver drops missing closes; with at least two valid closes it
\* yields price = last and changePercent = (last - previous) / previous * 100
\* of the last two valid closes, otherwise absent for both; price and
\* changePercent are present together or absent together.
C5_ChangeFromLastTwoValidCloses ==
    /\ (idx >= 1 /\ ticker_data # NoLookup) => Matches(results[idx], Expected(ticker_data))
    /\ \A i \in 1..Len(results) :
          (results[i].price = None) <=> (results[i].change_pct = None)

C5_Witness ==
    /\ idx >= 1
    /\ ticker_data.has_close
    /\ ticker_data.Close = <<Close(100), Close(100), Close(105)>>
    /\ results[idx].price = Float(105, 1)
    /\ results[idx].change_pct = Float(5, 1)

\* the number a code names: its leading digits
NumericCode(code) == parseDigits(code, 0)

MinNumericCode(sector) ==
    LET nums == { NumericCode(results[i].code) :
                    i \in {j \in 1..Len(results) : results[j].sector = sector} }
    IN  CHOOSE m \in nums : \A x \in nums : m <= x

\* C6: in the server-rendered view the sectors ascend by the minimum numeric
\* code among their members, and the tiles of a sector ascend by code string.
C6_SectorsByMinNumericCode ==
    Rendered =>
        LET blocks == html.sector_blocks
        IN  /\ \A a, b \in 1..Len(blocks) :
                  a < b => MinNumericCode(blocks[a].title) <= MinNumericCode(blocks[b].title)
            /\ \A b \in 1..Len(blocks) : \A k, m \in 1..Len(blocks[b].tiles) :
                  k < m => str_lt(blocks[b].tiles[k].code, blocks[b].tiles[m].code)

\* C7: a run of main that ends in a fatal error leaves the file at the output
\* path as the prior run left it.
C7_FatalErrorLeavesPriorArtifact ==
    pc = "failed" => output_file \in {AbsentFile, PriorFile}

\* the dataset record a tile shows
RecordOf(tile) == CHOOSE s \in { stockData[i] : i \in 1..Len(stockData) } : s.code = tile.code

\* a change percentage with absent read as zero
AsZero(pct) == IF pct.kind = "null" THEN 0 ELSE pct.n

\* C8: in the change-ordered views every record of the dataset appears
\* exactly once, and an absent change percentage is ordered as if it were 0:
\* after every positive and before every negative record in change_desc, the
\* reverse in change_asc.
C8_AbsentSortsAsZero ==
    (page = "loaded" /\ clicked \in {"change_desc", "change_asc"}) =>
        /\ Len(content) = 1
        /\ LET tiles == content[1].tiles
               pct(i) == RecordOf(tiles[i]).change_pct
               before(i, j) == IF clicked = "change_desc" THEN i < j ELSE j < i
           IN  /\ Len(tiles) = Len(stockData)
               /\ \A s \in 1..Len(stockData) :
                     Cardinality({ i \in 1..Len(tiles) : tiles[i].code = stockData[s].code }) = 1
               /\ \A i, j \in 1..Len(tiles) :
                     /\ (pct(i).kind = "null" /\ pct(j).kind = "number" /\ pct(j).n > 0)
                            => before(j, i)
                     /\ (pct(i).kind = "null" /\ pct(j).kind = "number" /\ pct(j).n < 0)
                            => before(i, j)
                     /\ before(i, j) =>
                            AsZero(pct(i)) * pct(j).d >= AsZero(pct(j)) * pct(i).d

C8_Witness ==
    /\ page = "loaded"
    /\ clicked = "change_desc"
    /\ Len(content) = 1
    /\ Len(content[1].tiles) = 3
    /\ content[1].tiles[1].bg = "#00873E"
    /\ content[1].tiles[2].bg = "#9E9E9E"
    /\ content[1].tiles[3].bg = "#FFCDD2"

\* C9: the selected mode is one of the four; a fresh load shows the sector
\* view with the sector button active; after a click exactly one button is
\* active, the one clicked last, the content is that mode's rendering of the
\* embedded dataset, and stockData is still the embedded dataset.
C9_ViewModeState ==
    page = "loaded" =>
        /\ active \subseteq Buttons
        /\ Cardinality(active) = 1
        /\ stockData = js_stockData(html.json_data)
        /\ clicked = "none" => active = {"sector"} /\ content = html.sector_blocks
        /\ clicked # "none" =>
              /\ active = {clicked}
              /\ content = sortBy_content(clicked, js_stockData(html.json_data))

C9_Witness ==
    /\ page = "loaded"
    /\ clicked = "code"
    /\ active = {"code"}
    /\ Len(stockData) = 3
    /\ stockData[1].code = <<"9">>
    /\ content[1].tiles[1].code = <<"1", "0">>

TitlesOf(blocks) == [k \in 1..Len(blocks) |-> blocks[k].title]

CodesOf(block) == [k \in 1..Len(block.tiles) |-> block.tiles[k].code]

\* C10: the sector view sortBy('sector') builds on the client has the same
\* sequence of sectors, and in each sector the same sequence of tiles, as the
\* server-rendered initial view.
C10_ClientSectorViewEqualsServer ==
    (page = "loaded" /\ clicked = "sector") =>
        /\ TitlesOf(content) = TitlesOf(html.sector_blocks)
        /\ \A k \in 1..Len(content) :
              k <= Len(html.sector_blocks) => CodesOf(content[k]) = CodesOf(html.sector_blocks[k])

====
